---- MODULE Spec2Model ----
(***************************************************************************)
(* Model of process_leads_data (src/main.py): the leads table is turned    *)
(* into SMS-contact rows.  Strings are sequences of one-character strings  *)
(* so that strip(), lower() and startswith() are computed, not assumed.    *)
(* A table cell is a record [kind, s, n]: kind "nan" is pandas' null       *)
(* marker, "str" a Python str with text s, "num" a number with value n.    *)
(***************************************************************************)
EXTENDS Integers, Sequences, FiniteSets, TLC

VARIABLES
    pc,              \* position in process_leads_data
    columns,         \* df.columns
    cells,           \* the records of df: cells[r][c], r a record, c a column
    phone_columns,   \* line 61
    type_columns,    \* line 62
    email_columns,   \* line 63
    unique_emails,   \* df['unique_emails'], one list per record
    wireless_phones, \* df['wireless_phones'], one list per record
    output_rows,     \* line 84
    rec,             \* the record the outer loop (line 85) is at, 1-based
    i,               \* the inner loop index (line 90), 0-based
    output_df        \* line 102

vars == <<pc, columns, cells, phone_columns, type_columns, email_columns,
          unique_emails, wireless_phones, output_rows, rec, i, output_df>>

----------------------------------------------------------------------------
(* Bounds *)

MaxRecords == 2

----------------------------------------------------------------------------
(* Strings *)

IsSpace(c) == c \in {" ", "\t"}

LowerChar(c) ==
    CASE c = "A" -> "a" [] c = "B" -> "b" [] c = "C" -> "c" [] c = "D" -> "d"
      [] c = "E" -> "e" [] c = "F" -> "f" [] c = "G" -> "g" [] c = "H" -> "h"
      [] c = "I" -> "i" [] c = "J" -> "j" [] c = "K" -> "k" [] c = "L" -> "l"
      [] c = "M" -> "m" [] c = "N" -> "n" [] c = "O" -> "o" [] c = "P" -> "p"
      [] c = "Q" -> "q" [] c = "R" -> "r" [] c = "S" -> "s" [] c = "T" -> "t"
      [] c = "U" -> "u" [] c = "V" -> "v" [] c = "W" -> "w" [] c = "X" -> "x"
      [] c = "Y" -> "y" [] c = "Z" -> "z" [] OTHER -> c

lower(s) == [j \in 1..Len(s) |-> LowerChar(s[j])]

RECURSIVE lstrip(_)
lstrip(s) == IF s # <<>> /\ IsSpace(Head(s)) THEN lstrip(Tail(s)) ELSE s

RECURSIVE rstrip(_)
rstrip(s) ==
    IF s # <<>> /\ IsSpace(s[Len(s)]) THEN rstrip(SubSeq(s, 1, Len(s) - 1)) ELSE s

strip(s) == rstrip(lstrip(s))

startswith(s, prefix) ==
    Len(s) >= Len(prefix) /\ SubSeq(s, 1, Len(prefix)) = prefix

\* the string literals of the source
PHONE == <<"p","h","o","n","e">>
PHONE_TYPE == <<"p","h","o","n","e"," ","t","y","p","e">>
EMAIL == <<"e","m","a","i","l">>
WIRELESS == <<"w","i","r","e","l","e","s","s">>
FIRSTNAME == <<"f","i","r","s","t","n","a","m","e">>
LASTNAME == <<"l","a","s","t","n","a","m","e">>
PROPERTYADDRESS == <<"p","r","o","p","e","r","t","y","a","d","d","r","e","s","s">>
RECIPIENTCITY == <<"r","e","c","i","p","i","e","n","t","c","i","t","y">>
RECIPIENTSTATE == <<"r","e","c","i","p","i","e","n","t","s","t","a","t","e">>
RECIPIENTPOSTALCODE ==
    <<"r","e","c","i","p","i","e","n","t","p","o","s","t","a","l","c","o","d","e">>

----------------------------------------------------------------------------
(* Cells *)

NaN == [kind |-> "nan", s |-> <<>>, n |-> 0]
Str(s) == [kind |-> "str", s |-> s, n |-> 0]
Num(n) == [kind |-> "num", s |-> <<>>, n |-> n]
EmptyStr == Str(<<>>)

notna(v) == v.kind # "nan"
isinstance_str(v) == v.kind = "str"


----------------------------------------------------------------------------
(* Tables: a row is a sequence of cells, one per column of the header *)

Min(a, b) == IF a <= b THEN a ELSE b
Max(a, b) == IF a >= b THEN a ELSE b

HasColumn(cols, name) == \E c \in 1..Len(cols) : cols[c] = name

\* row[name]: the cell of the (first) column called name
RowCell(cols, row, name) ==
    row[CHOOSE c \in 1..Len(cols) :
            cols[c] = name /\ \A d \in 1..(c - 1) : cols[d] # name]

\* row.get(name, default)
RowGet(cols, row, name, default) ==
    IF HasColumn(cols, name) THEN RowCell(cols, row, name) ELSE default

\* df.columns.str.strip().str.lower()
NormalizeColumns(cols) == [c \in 1..Len(cols) |-> lower(strip(cols[c]))]

IsPhoneColumn(col) == startswith(col, PHONE)
IsTypeColumn(col) == startswith(col, PHONE_TYPE)
IsEmailColumn(col) == startswith(col, EMAIL)

PhoneColumns(cols) == SelectSeq(cols, IsPhoneColumn)
TypeColumns(cols) == SelectSeq(cols, IsTypeColumn)
EmailColumns(cols) == SelectSeq(cols, IsEmailColumn)

\* zip(a, b): pairs by position, as long as the shorter list
zip(a, b) == [j \in 1..Min(Len(a), Len(b)) |-> <<a[j], b[j]>>]

VOIP == <<"v","o","i","p">>

\* a variant that also lets voip lines through
IsWirelessType_voip(t) ==
    notna(t) /\ isinstance_str(t) /\ lower(strip(t.s)) \in {WIRELESS, VOIP}

\* the test of lines 72-73 on the type cell
IsWirelessType(t) ==
    notna(t) /\ isinstance_str(t) /\ lower(strip(t.s)) = WIRELESS

\* the loop body of extract_wireless_phones over the zipped column pairs
RECURSIVE WirelessOf(_, _, _)
WirelessOf(cols, row, pairs) ==
    IF pairs = <<>> THEN <<>>
    ELSE LET phone_col == Head(pairs)[1]
             type_col == Head(pairs)[2]
             rest == WirelessOf(cols, row, Tail(pairs))
         IN IF IsWirelessType(RowCell(cols, row, type_col))
               /\ notna(RowCell(cols, row, phone_col))
            THEN <<RowCell(cols, row, phone_col)>> \o rest
            ELSE rest

extract_wireless_phones(cols, row, pcols, tcols) ==
    WirelessOf(cols, row, zip(pcols, tcols))

\* Series.dropna()
dropna(s) == SelectSeq(s, notna)

\* a variant that keeps the last occurrence of a value instead of the first
RECURSIVE unique_last(_)
unique_last(s) ==
    IF s = <<>> THEN <<>>
    ELSE LET rest == unique_last(Tail(s))
         IN IF \E j \in 1..Len(rest) : rest[j] = Head(s)
            THEN rest ELSE <<Head(s)>> \o rest

\* Series.unique(): the distinct values in order of first appearance
RECURSIVE unique(_)
unique(s) ==
    IF s = <<>> THEN <<>>
    ELSE LET init == unique(SubSeq(s, 1, Len(s) - 1))
             last == s[Len(s)]
         IN IF \E j \in 1..Len(init) : init[j] = last
            THEN init ELSE Append(init, last)

\* df[email_columns] restricted to one record
EmailCells(cols, row, ecols) ==
    [j \in 1..Len(ecols) |-> RowCell(cols, row, ecols[j])]

\* the lambda of line 78
UniqueEmailsOf(cols, row, ecols) == unique(dropna(EmailCells(cols, row, ecols)))

\* DataFrame.apply(f, axis=1) on a frame with no columns and at least one
\* record calls f once on an empty Series and builds
\* Series(f(empty), index=df.index); f returns the list [], whose length 0
\* does not match the index, and the Series constructor raises ValueError.
ApplyRaises(ecols, nrecords) == ecols = <<>> /\ nrecords > 0

\* a variant that stops at the shorter of the two lists
ExpansionLength_zip(phones, emails) == Min(Len(phones), Len(emails))

\* range(len(wireless_phones)) of line 90
ExpansionLength(phones, emails) == Len(phones)

\* a variant that repeats the first email in every row
EmailAt_first(emails, k) == IF emails # <<>> THEN emails[1] ELSE EmptyStr

\* line 94
EmailAt(emails, k) == IF k < Len(emails) THEN emails[k + 1] ELSE EmptyStr

\* line 95
PhoneAt(phones, k) == phones[k + 1]

\* the dict of lines 91-100
OutputRow(cols, row, phones, emails, k) ==
    [FirstName   |-> RowGet(cols, row, FIRSTNAME, EmptyStr),
     LastName    |-> RowGet(cols, row, LASTNAME, EmptyStr),
     Email       |-> EmailAt(emails, k),
     MobilePhone |-> PhoneAt(phones, k),
     Address     |-> RowGet(cols, row, PROPERTYADDRESS, EmptyStr),
     City        |-> RowGet(cols, row, RECIPIENTCITY, EmptyStr),
     State       |-> RowGet(cols, row, RECIPIENTSTATE, EmptyStr),
     ZipCode     |-> RowGet(cols, row, RECIPIENTPOSTALCODE, EmptyStr)]

\* the keys of that dict, in the order they are written
RowKeys == <<"First Name", "Last Name", "Email", "Mobile Phone",
             "Address", "City", "State", "Zip Code">>

\* a variant that puts the new row in front
AppendRow_front(rows, entry) == <<entry>> \o rows

\* output_rows.append(...); rec and idx record which loop iteration appended
AppendRow(rows, entry) == Append(rows, entry)

\* pd.DataFrame(list of dicts): the columns are the keys of the dicts, and a
\* frame built from an empty list has no columns at all
DataFrameOf(rows) ==
    [columns |-> IF rows = <<>> THEN <<>> ELSE RowKeys,
     rows    |-> [j \in 1..Len(rows) |-> rows[j].fields]]

----------------------------------------------------------------------------
(* Input tables.  A sheet lists, per column, the header text as the source *)
(* file spells it and the cells a record may hold there.                   *)

Col(name, values) == [name |-> name, values |-> values]

A_AT_X == Str(<<"a","@","x",".","c","o","m">>)
B_AT_Y == Str(<<"b","@","y",".","c","o","m">>)

TypeCells ==
    {NaN, Str(<<"W","i","r","e","l","e","s","s">>), Str(<<" ","w","i","r","e","l","e","s","s"," ">>), Str(<<" ","V","O","I","P"," ">>), Str(<<"v","o","i","p">>),
     Str(<<"L","a","n","d","l","i","n","e">>), EmptyStr, Num(7)}
PhoneCells == {NaN, Str(<<"5","5","5","1">>), EmptyStr, Num(5552)}
MailCells == {NaN, A_AT_X, B_AT_Y, Str(<<" "," ">>), Num(42)}

\* phone and type columns interleaved, as in the usual export
SheetInterleaved ==
    << Col(<<" ","P","h","o","n","e"," ","1">>, PhoneCells), Col(<<"P","h","o","n","e"," ","T","y","p","e"," ","1">>, TypeCells),
       Col(<<"p","h","o","n","e"," ","2">>, PhoneCells), Col(<<"P","H","O","N","E"," ","T","Y","P","E"," ","2"," ">>, TypeCells),
       Col(<<"E","m","a","i","l"," ","1">>, {A_AT_X}) >>

\* all phone columns before all type columns; up to 2 phones and 3 emails
SheetPairs ==
    << Col(<<"p","h","o","n","e"," ","1">>, {NaN, Str(<<"5","5","5","1">>)}),
       Col(<<"p","h","o","n","e"," ","2">>, {Str(<<"5","5","5","1">>), Str(<<"5","5","5","2">>)}),
       Col(<<"p","h","o","n","e"," ","t","y","p","e"," ","1">>, {Str(<<"W","i","r","e","l","e","s","s">>), Str(<<"L","a","n","d","l","i","n","e">>)}),
       Col(<<"p","h","o","n","e"," ","t","y","p","e"," ","2">>, {Str(<<"w","i","r","e","l","e","s","s">>), Str(<<"v","o","i","p">>)}),
       Col(<<"e","m","a","i","l"," ","1">>, {NaN, A_AT_X, B_AT_Y}),
       Col(<<"e","m","a","i","l"," ","2">>, {NaN, A_AT_X, B_AT_Y}),
       Col(<<"e","m","a","i","l"," ","3">>, {NaN, A_AT_X, B_AT_Y}) >>

SheetEmails ==
    << Col(<<"E","m","a","i","l"," ","1">>, MailCells), Col(<<" ","e","m","a","i","l"," ","2">>, MailCells),
       Col(<<"E","M","A","I","L"," ","3">>, MailCells),
       Col(<<"P","h","o","n","e"," ","1">>, {Str(<<"5","5","5","1">>)}),
       Col(<<"P","h","o","n","e"," ","T","y","p","e"," ","1">>, {Str(<<"W","i","r","e","l","e","s","s">>), Str(<<"L","a","n","d","l","i","n","e">>)}) >>

SheetAddress ==
    << Col(<<"F","i","r","s","t","N","a","m","e">>, {NaN, Str(<<"A","n","a">>)}),
       Col(<<"L","a","s","t","N","a","m","e">>, {NaN, Str(<<"L","e","e">>)}),
       Col(<<"P","r","o","p","e","r","t","y","A","d","d","r","e","s","s">>, {NaN, Str(<<"1","2"," ","E","l","m">>)}),
       Col(<<"P","r","o","p","e","r","t","y","C","i","t","y">>, {NaN, Str(<<"R","e","n","o">>)}),
       Col(<<"P","r","o","p","e","r","t","y","S","t","a","t","e">>, {NaN, Str(<<"N","V">>)}),
       Col(<<"P","r","o","p","e","r","t","y","P","o","s","t","a","l","C","o","d","e">>, {NaN, Num(89501)}),
       Col(<<"R","e","c","i","p","i","e","n","t","C","i","t","y">>, {NaN, Str(<<"B","o","i","s","e">>)}),
       Col(<<"R","e","c","i","p","i","e","n","t","S","t","a","t","e">>, {NaN, Str(<<"I","D">>)}),
       Col(<<"R","e","c","i","p","i","e","n","t","P","o","s","t","a","l","C","o","d","e">>, {NaN, Num(83702)}),
       Col(<<"P","h","o","n","e"," ","1">>, {Str(<<"5","5","5","1">>)}), Col(<<"P","h","o","n","e"," ","2">>, {Str(<<"5","5","5","2">>)}),
       Col(<<"P","h","o","n","e"," ","T","y","p","e"," ","1">>, {Str(<<"W","i","r","e","l","e","s","s">>)}),
       Col(<<"P","h","o","n","e"," ","T","y","p","e"," ","2">>, {Str(<<"W","i","r","e","l","e","s","s">>)}),
       Col(<<"E","m","a","i","l"," ","1">>, {A_AT_X}) >>

\* sheets read with exactly one record
RichSheets == {SheetInterleaved, SheetPairs, SheetEmails, SheetAddress}

SheetNamesOnly == << Col(<<"F","i","r","s","t","N","a","m","e">>, {NaN, Str(<<"A","n","a">>)}) >>

SheetNoEmail ==
    << Col(<<"p","h","o","n","e"," ","1">>, {Str(<<"5","5","5","1">>)}),
       Col(<<"p","h","o","n","e"," ","t","y","p","e"," ","1">>, {Str(<<"w","i","r","e","l","e","s","s">>), Str(<<"L","a","n","d","l","i","n","e">>)}) >>

SheetEmailOnly == << Col(<<"E","m","a","i","l"," ","1">>, {NaN, A_AT_X}) >>

SheetBatch ==
    << Col(<<"F","i","r","s","t","N","a","m","e">>, {Str(<<"A","n","a">>)}),
       Col(<<"P","h","o","n","e"," ","1">>, {Str(<<"5","5","5","1">>)}), Col(<<"P","h","o","n","e"," ","2">>, {Str(<<"5","5","5","2">>)}),
       Col(<<"P","h","o","n","e"," ","T","y","p","e"," ","1">>, {Str(<<"w","i","r","e","l","e","s","s">>), Str(<<"L","a","n","d","l","i","n","e">>)}),
       Col(<<"P","h","o","n","e"," ","T","y","p","e"," ","2">>, {Str(<<"w","i","r","e","l","e","s","s">>), Str(<<"L","a","n","d","l","i","n","e">>)}),
       Col(<<"E","m","a","i","l"," ","1">>, {NaN, A_AT_X}) >>

\* sheets read with 0..MaxRecords records
BatchSheets == {SheetNamesOnly, SheetNoEmail, SheetEmailOnly, SheetBatch}

HeaderOf(sheet) == [c \in 1..Len(sheet) |-> sheet[c].name]

RECURSIVE RowsOf(_)
RowsOf(sheet) ==
    IF sheet = <<>> THEN {<<>>}
    ELSE {<<v>> \o rest : v \in Head(sheet).values, rest \in RowsOf(Tail(sheet))}

Tables(sheet, n) ==
    {[columns |-> HeaderOf(sheet), cells |-> rows] : rows \in [1..n -> RowsOf(sheet)]}

Inputs ==
    UNION ({Tables(sheet, 1) : sheet \in RichSheets}
           \cup {Tables(sheet, n) : sheet \in BatchSheets, n \in 0..MaxRecords})

----------------------------------------------------------------------------
(* process_leads_data *)

NoFrame == [columns |-> <<>>, rows |-> <<>>]

Init ==
    /\ \E df \in Inputs : columns = df.columns /\ cells = df.cells
    /\ pc = "normalize"
    /\ phone_columns = <<>>
    /\ type_columns = <<>>
    /\ email_columns = <<>>
    /\ unique_emails = <<>>
    /\ wireless_phones = <<>>
    /\ output_rows = <<>>
    /\ rec = 0
    /\ i = 0
    /\ output_df = NoFrame

\* line 58
Normalize ==
    /\ pc = "normalize"
    /\ columns' = NormalizeColumns(columns)
    /\ pc' = "identify"
    /\ UNCHANGED <<cells, phone_columns, type_columns, email_columns,
                   unique_emails, wireless_phones, output_rows, rec, i, output_df>>

\* lines 61-63
Identify ==
    /\ pc = "identify"
    /\ phone_columns' = PhoneColumns(columns)
    /\ type_columns' = TypeColumns(columns)
    /\ email_columns' = EmailColumns(columns)
    /\ pc' = "emails"
    /\ UNCHANGED <<columns, cells, unique_emails, wireless_phones,
                   output_rows, rec, i, output_df>>

\* line 78
ExtractEmails ==
    /\ pc = "emails"
    /\ ~ApplyRaises(email_columns, Len(cells))
    /\ unique_emails' =
          [r \in 1..Len(cells) |-> UniqueEmailsOf(columns, cells[r], email_columns)]
    /\ pc' = "phones"
    /\ UNCHANGED <<columns, cells, phone_columns, type_columns, email_columns,
                   wireless_phones, output_rows, rec, i, output_df>>

\* line 78, when the apply raises: the exception leaves process_leads_data
ExtractEmailsRaises ==
    /\ pc = "emails"
    /\ ApplyRaises(email_columns, Len(cells))
    /\ pc' = "raised"
    /\ UNCHANGED <<columns, cells, phone_columns, type_columns, email_columns,
                   unique_emails, wireless_phones, output_rows, rec, i, output_df>>

\* lines 81-85: the phones of every record, then the loop starts
ExtractPhones ==
    /\ pc = "phones"
    /\ wireless_phones' =
          [r \in 1..Len(cells) |->
              extract_wireless_phones(columns, cells[r], phone_columns, type_columns)]
    /\ output_rows' = <<>>
    /\ rec' = 1
    /\ i' = 0
    /\ pc' = "loop"
    /\ UNCHANGED <<columns, cells, phone_columns, type_columns, email_columns,
                   unique_emails, output_df>>

\* lines 90-100: one iteration of the inner loop
EmitRow ==
    /\ pc = "loop"
    /\ rec <= Len(cells)
    /\ i < ExpansionLength(wireless_phones[rec], unique_emails[rec])
    /\ output_rows' =
          AppendRow(output_rows,
                    [rec |-> rec, idx |-> i,
                     fields |-> OutputRow(columns, cells[rec], wireless_phones[rec],
                                          unique_emails[rec], i)])
    /\ i' = i + 1
    /\ UNCHANGED <<pc, columns, cells, phone_columns, type_columns, email_columns,
                   unique_emails, wireless_phones, rec, output_df>>

\* line 85: the inner loop is exhausted, iterrows yields the next record
NextRecord ==
    /\ pc = "loop"
    /\ rec <= Len(cells)
    /\ i >= ExpansionLength(wireless_phones[rec], unique_emails[rec])
    /\ rec' = rec + 1
    /\ i' = 0
    /\ UNCHANGED <<pc, columns, cells, phone_columns, type_columns, email_columns,
                   unique_emails, wireless_phones, output_rows, output_df>>

\* lines 102-103
BuildOutput ==
    /\ pc = "loop"
    /\ rec > Len(cells)
    /\ output_df' = DataFrameOf(output_rows)
    /\ pc' = "done"
    /\ UNCHANGED <<columns, cells, phone_columns, type_columns, email_columns,
                   unique_emails, wireless_phones, output_rows, rec, i>>

Next ==
    \/ Normalize
    \/ Identify
    \/ ExtractEmails
    \/ ExtractEmailsRaises
    \/ ExtractPhones
    \/ EmitRow
    \/ NextRecord
    \/ BuildOutput

Spec == Init /\ [][Next]_vars

----------------------------------------------------------------------------
(* Properties *)

Computed == pc \in {"loop", "done"}

Records == 1..Len(cells)

\* the rows emitted so far for record r
RowsFor(r) == {j \in 1..Len(output_rows) : output_rows[j].rec = r}

\* the position of emitted row j among the rows of its record, 0-based
PositionInRecord(j) ==
    Cardinality({h \in 1..(j - 1) : output_rows[h].rec = output_rows[j].rec})

(* C1, as stated: once process_leads_data has returned, a record with k     *)
(* qualifying phones and m collected emails has max(k, m) rows in the       *)
(* output (0 when k = m = 0).                                               *)
C1_RowCountIsMax ==
    pc = "done" =>
        \A r \in Records :
            Cardinality(RowsFor(r)) =
                Max(Len(wireless_phones[r]), Len(unique_emails[r]))

(* C1, amended: once process_leads_data has returned, a record with k       *)
(* qualifying phones has exactly k rows in the output, whatever the number  *)
(* of its emails.                                                           *)
C1_RowCountIsPhones ==
    pc = "done" =>
        \A r \in Records : Cardinality(RowsFor(r)) = Len(wireless_phones[r])

C1_Witness ==
    /\ pc = "done"
    /\ \E r \in Records :
          /\ Len(wireless_phones[r]) = 1
          /\ Len(unique_emails[r]) = 3
          /\ Cardinality(RowsFor(r)) = 1

(* C2: the i-th row emitted for a record (0-based) carries phones[i] if     *)
(* i < k, else the empty string, as Mobile Phone, and emails[i] if i < m,   *)
(* else the empty string, as Email.                                         *)
C2_RowPairing ==
    \A j \in 1..Len(output_rows) :
        LET r == output_rows[j].rec
            n == PositionInRecord(j)
            phones == wireless_phones[r]
            emails == unique_emails[r]
        IN /\ output_rows[j].fields.MobilePhone =
                  (IF n < Len(phones) THEN phones[n + 1] ELSE EmptyStr)
           /\ output_rows[j].fields.Email =
                  (IF n < Len(emails) THEN emails[n + 1] ELSE EmptyStr)

C2_Witness ==
    /\ pc = "done"
    /\ \E r \in Records :
          /\ Len(wireless_phones[r]) = 2
          /\ Len(unique_emails[r]) = 1
          /\ \E j \in RowsFor(r) :
                PositionInRecord(j) = 1 /\ output_rows[j].fields.Email = EmptyStr
          /\ \E j \in RowsFor(r) :
                PositionInRecord(j) = 0 /\ output_rows[j].fields.Email # EmptyStr

\* the column pairs extract_wireless_phones reads, and their cells in record r
Slots == zip(phone_columns, type_columns)
SlotPhone(r, j) == RowCell(columns, cells[r], Slots[j][1])
SlotType(r, j) == RowCell(columns, cells[r], Slots[j][2])

\* the phone cells of the slots of record r that Qualifies accepts, in slot order
PhonesWhere(r, Qualifies(_, _)) ==
    LET picked == SelectSeq([j \in 1..Len(Slots) |-> j],
                            LAMBDA j : Qualifies(SlotPhone(r, j), SlotType(r, j)))
    IN [n \in 1..Len(picked) |-> SlotPhone(r, picked[n])]

\* C3's rule: the phone is present and non-empty, the type is wireless or voip
QualifiesWirelessOrVoip(phone, type) ==
    /\ notna(phone) /\ phone # EmptyStr
    /\ type.kind = "str" /\ lower(strip(type.s)) \in {WIRELESS, VOIP}

\* the amended rule: the phone is not null, the type is wireless
QualifiesWireless(phone, type) ==
    /\ phone # NaN
    /\ type.kind = "str" /\ lower(strip(type.s)) = WIRELESS

(* C3, as stated: a slot's phone is in the record's qualifying phones iff   *)
(* the phone cell is present and non-empty and the type cell, trimmed and   *)
(* lowercased, is "wireless" or "voip"; the phones keep slot order and      *)
(* repeated values.                                                         *)
C3_WirelessOrVoipQualify ==
    Computed =>
        \A r \in Records :
            wireless_phones[r] = PhonesWhere(r, QualifiesWirelessOrVoip)

(* C3, amended: a slot's phone is in the record's qualifying phones iff the *)
(* phone cell is not null and the type cell is a string that, trimmed and   *)
(* lowercased, equals "wireless" (a voip type does not qualify, an empty    *)
(* phone string does); the phones keep slot order and repeated values.      *)
C3_OnlyWirelessQualifies ==
    Computed =>
        \A r \in Records : wireless_phones[r] = PhonesWhere(r, QualifiesWireless)

C3_Witness ==
    /\ Computed
    /\ \E r \in Records :
          /\ Len(Slots) = 2
          /\ SlotType(r, 1) = Str(<<"W","i","r","e","l","e","s","s">>) /\ SlotPhone(r, 1) = Str(<<"5","5","5","1">>)
          /\ SlotType(r, 2) = Str(<<"v","o","i","p">>) /\ SlotPhone(r, 2) = Str(<<"5","5","5","2">>)
          /\ wireless_phones[r] = <<Str(<<"5","5","5","1">>)>>

\* the columns the column resolver of the specification calls phone columns
TruePhoneColumns ==
    SelectSeq(columns, LAMBDA col : IsPhoneColumn(col) /\ ~IsTypeColumn(col))

(* C4: a phone-type column is never used as a phone column: the two column  *)
(* lists are disjoint, the i-th phone column is read with the i-th type     *)
(* column, and no emitted Mobile Phone is the content of a phone-type cell. *)
C4_TypeColumnNeverReadAsPhone ==
    /\ pc \notin {"normalize", "identify"} =>
          /\ \A a \in 1..Len(phone_columns), b \in 1..Len(type_columns) :
                phone_columns[a] # type_columns[b]
          /\ Slots = zip(TruePhoneColumns, type_columns)
    /\ \A j \in 1..Len(output_rows) :
          \E c \in 1..Len(columns) :
              /\ IsPhoneColumn(columns[c]) /\ ~IsTypeColumn(columns[c])
              /\ cells[output_rows[j].rec][c] = output_rows[j].fields.MobilePhone

\* the cells of the email columns of record r, in header order
MailsOf(r) == EmailCells(columns, cells[r], email_columns)

FirstIndex(s, v) == CHOOSE a \in 1..Len(s) : s[a] = v /\ \A b \in 1..(a - 1) : s[b] # v

\* out holds each value of s once, in the order of the first occurrences
IsDedupOf(out, s) ==
    /\ \A a, b \in 1..Len(out) : a # b => out[a] # out[b]
    /\ {out[a] : a \in 1..Len(out)} = {s[a] : a \in 1..Len(s)}
    /\ \A a, b \in 1..Len(out) : a < b => FirstIndex(s, out[a]) < FirstIndex(s, out[b])

\* C5's rule: a present string that is not empty once trimmed
IsTextEmail(v) == v.kind = "str" /\ strip(v.s) # <<>>

(* C5, as stated: the collected emails are the email cells in header order  *)
(* that are present, strings and non-empty after trimming, de-duplicated    *)
(* keeping the first occurrence.                                            *)
C5_OnlyTextEmailsKept ==
    pc \in {"phones", "loop", "done"} =>
        \A r \in Records :
            IsDedupOf(unique_emails[r], SelectSeq(MailsOf(r), IsTextEmail))

\* the amended rule: any cell that is not null
IsNotNull(v) == v # NaN

(* C5, amended: the collected emails are the email cells in header order    *)
(* that are not null (a number or a blank string is kept like any other     *)
(* value), de-duplicated by equality keeping the first occurrence.          *)
C5_NonNullEmailsKept ==
    pc \in {"phones", "loop", "done"} =>
        \A r \in Records :
            IsDedupOf(unique_emails[r], SelectSeq(MailsOf(r), IsNotNull))

C5_Witness ==
    /\ pc \in {"phones", "loop", "done"}
    /\ \E r \in Records :
          /\ MailsOf(r) = <<A_AT_X, B_AT_Y, A_AT_X>>
          /\ unique_emails[r] = <<A_AT_X, B_AT_Y>>

(* C6: the output is the concatenation of the per-record expansions: rows   *)
(* of an earlier record precede rows of a later one, the rows of one record *)
(* are contiguous and in ascending expansion index, and the returned frame  *)
(* keeps that order.                                                        *)
C6_InputOrderPreserved ==
    /\ \A a, b \in 1..Len(output_rows) :
          a < b =>
             \/ output_rows[a].rec < output_rows[b].rec
             \/ /\ output_rows[a].rec = output_rows[b].rec
                /\ output_rows[a].idx < output_rows[b].idx
    /\ \A a \in 1..Len(output_rows) : output_rows[a].idx = PositionInRecord(a)
    /\ pc = "done" =>
          /\ Len(output_df.rows) = Len(output_rows)
          /\ \A a \in 1..Len(output_rows) : output_df.rows[a] = output_rows[a].fields

C6_Witness ==
    /\ pc = "done"
    /\ Len(cells) >= 2
    /\ Cardinality(RowsFor(1)) = 2
    /\ Cardinality(RowsFor(2)) >= 1

ScalarsOf(fields) ==
    {fields.FirstName, fields.LastName, fields.Address,
     fields.City, fields.State, fields.ZipCode}

(* C7: in every emitted row First Name, Last Name, Address, City, State and *)
(* Zip Code are strings; an absent source value gives the empty string,     *)
(* never a null marker.                                                     *)
C7_ScalarsAreStrings ==
    \A j \in 1..Len(output_rows) :
        \A v \in ScalarsOf(output_rows[j].fields) : v.kind = "str"

(* C8: with a header that has no phone column and no email column,          *)
(* process_leads_data does not raise and emits no row.                      *)
C8_NoColumnsNoError ==
    (/\ PhoneColumns(NormalizeColumns(columns)) = <<>>
     /\ EmailColumns(NormalizeColumns(columns)) = <<>>)
        => (pc # "raised" /\ output_rows = <<>>)

(* C9: the returned frame always has the eight columns First Name, Last     *)
(* Name, Email, Mobile Phone, Address, City, State, Zip Code in that order, *)
(* also when it has no rows.                                                *)
C9_EightColumnsAlways ==
    pc = "done" =>
        output_df.columns = <<"First Name", "Last Name", "Email", "Mobile Phone",
                              "Address", "City", "State", "Zip Code">>

PROPERTYCITY == <<"p","r","o","p","e","r","t","y","c","i","t","y">>
PROPERTYSTATE == <<"p","r","o","p","e","r","t","y","s","t","a","t","e">>
PROPERTYPOSTALCODE == <<"p","r","o","p","e","r","t","y","p","o","s","t","a","l","c","o","d","e">>

(* C10: every emitted row takes First Name from firstname, Last Name from   *)
(* lastname, Address from propertyaddress, City from propertycity, State    *)
(* from propertystate and Zip Code from propertypostalcode; with non-empty  *)
(* property cells, City, State and Zip Code equal those cells.              *)
C10_ScalarsFromPropertyColumns ==
    \A j \in 1..Len(output_rows) :
        LET row == cells[output_rows[j].rec]
            fields == output_rows[j].fields
            Source(name) == RowGet(columns, row, name, NaN)
        IN /\ notna(Source(FIRSTNAME)) => fields.FirstName = Source(FIRSTNAME)
           /\ notna(Source(LASTNAME)) => fields.LastName = Source(LASTNAME)
           /\ notna(Source(PROPERTYADDRESS)) => fields.Address = Source(PROPERTYADDRESS)
           /\ notna(Source(PROPERTYCITY)) => fields.City = Source(PROPERTYCITY)
           /\ notna(Source(PROPERTYSTATE)) => fields.State = Source(PROPERTYSTATE)
           /\ notna(Source(PROPERTYPOSTALCODE)) =>
                 fields.ZipCode = Source(PROPERTYPOSTALCODE)

====
